---- MODULE Spec2Model ----
(***************************************************************************)
(* A model of src/main.py: one batch optimisation job.  main() parses its  *)
(* arguments, selects the mode, logs the startup records, and then runs    *)
(* sleep / load / solve / report / write inside try-except-finally, with   *)
(* upload_logs_if_needed in the finally clause.                            *)
(*                                                                         *)
(* log_startup reads the global name `platform`, which the module never    *)
(* imports (lines 2-6).  Run as a script the lookup raises NameError; it   *)
(* succeeds only when the importing host has bound the name in the         *)
(* module's namespace.  platformBound records which of the two holds, so   *)
(* that the stages after startup can be examined as well.                  *)
(*                                                                         *)
(* External collaborators (object storage, the filesystem, the solver) are *)
(* nondeterministic: every call that can raise either returns or raises.   *)
(* Timestamps of log records and of log keys are left out.                 *)
(***************************************************************************)
EXTENDS Integers, Sequences, FiniteSets, TLC

VARIABLES
    pc,             \* position of main()
    job_id,         \* a.job_id
    bucket,         \* a.bucket: [given, value]; given = FALSE is None
    platformBound,  \* does the global name `platform` resolve at line 82
    use_s3,         \* main's local use_s3
    logRecs,        \* records appended by log() (console and /tmp/app.log)
    console,        \* lines printed with print() outside log()
    s3ops,          \* object-storage calls made, in order, with their outcome
    fsOps,          \* accesses to the local input files, in order
    appLogExists,   \* /tmp/app.log exists
    grbLogExists,   \* /tmp/gurobi.log exists
    grbLogTargets,  \* solver objects whose LogFile was set to /tmp/gurobi.log
    products,       \* the loaded product table (sequence of rows)
    caps,           \* the loaded capacity map
    lp,             \* the model built by solve: variables, bounds, constraints
    status,         \* m.status after optimize; 0 before
    obj,            \* main's local obj
    sol,            \* main's local sol (sequence of rows); <<>> if unset
    e,              \* the exception bound by `except Exception as e`
    exc,            \* the exception propagating at this point
    uploadCalls     \* number of calls of upload_logs_if_needed

vars == <<pc, job_id, bucket, platformBound, use_s3, logRecs, console, s3ops,
          fsOps, appLogExists, grbLogExists, grbLogTargets,
          products, caps, lp, status, obj, sol, e, exc, uploadCalls>>

----------------------------------------------------------------------------
(* Bounds of the model *)

NumJobIds == 2
MaxBucketLen == 2
NumProductIds == 2

----------------------------------------------------------------------------
(* Inputs *)

JobIds == 1..NumJobIds

Whitespace == {" ", "\t"}
Chars == Whitespace \cup {"b"}
BucketStrings == UNION {[1..n -> Chars] : n \in 0..MaxBucketLen}
NoBucket == [given |-> FALSE, value |-> <<>>]
BucketArgs == {NoBucket} \cup {[given |-> TRUE, value |-> s] : s \in BucketStrings}

ProductIds == 1..NumProductIds
Row(p) == [product |-> p, profit |-> 2 * p + 1, resA |-> p % 2, resB |-> 2 * ((p + 1) % 2)]
DistinctSeqs(S) ==
    UNION {{s \in [1..n -> S] : \A i, j \in 1..n : s[i] = s[j] => i = j} : n \in 1..Cardinality(S)}
ProductTables == {[i \in DOMAIN s |-> Row(s[i])] : s \in DistinctSeqs(ProductIds)}

CapKeys == {"resA", "resB", "resC"}
CapValues == {10}
CapacityMaps == UNION {[K -> CapValues] : K \in SUBSET CapKeys}

GRB_OPTIMAL == 2
StatusCodes == {2, 3, 5, 9}

----------------------------------------------------------------------------
(* Constants and helpers of the program *)

_APP_LOG_PATH == "/tmp/app.log"
_GRB_LOG_PATH == "/tmp/gurobi.log"

NoExc == [type |-> "none", msg |-> "", status |-> 0]
Exc(t, m) == [type |-> t, msg |-> m, status |-> 0]

\* str.strip(): drop leading and trailing whitespace
RECURSIVE LStrip(_)
LStrip(s) == IF s # <<>> /\ Head(s) \in Whitespace THEN LStrip(Tail(s)) ELSE s
RECURSIVE RStrip(_)
RStrip(s) ==
    IF s # <<>> /\ s[Len(s)] \in Whitespace THEN RStrip(SubSeq(s, 1, Len(s) - 1)) ELSE s
Strip(s) == RStrip(LStrip(s))

\* bool((a.bucket or "").strip())
UseS3_NoStrip(b) == (IF b.given /\ b.value # <<>> THEN b.value ELSE <<>>) # <<>>
UseS3(b) == Strip(IF b.given /\ b.value # <<>> THEN b.value ELSE <<>>) # <<>>

\* log(msg, payload): one record, printed and appended to /tmp/app.log
Rec(msg, payload) == [msg |-> msg, payload |-> payload]
Log(recs, msg, payload) == Append(recs, Rec(msg, payload))

InputKey(j, name) == <<j, "input", name>>
OutputKey(j) == <<j, "output", "solution.csv">>
LogKey(j, name) == <<j, "logs", name>>
S3Op(op, key, ok) == [op |-> op, key |-> key, ok |-> ok]

----------------------------------------------------------------------------
\* main lines 130-131: the arguments are parsed and the mode is selected
Init ==
    /\ pc = "log_startup"
    /\ job_id \in JobIds
    /\ bucket \in BucketArgs
    /\ platformBound \in BOOLEAN
    /\ use_s3 = UseS3(bucket)
    /\ logRecs = <<>>
    /\ console = <<>>
    /\ s3ops = <<>>
    /\ fsOps = <<>>
    /\ appLogExists = FALSE
    /\ grbLogExists = FALSE
    /\ grbLogTargets = {}
    /\ products = <<>>
    /\ caps = <<>>
    /\ lp = [vars |-> {}, lb |-> <<>>, constrs |-> <<>>]
    /\ status = 0
    /\ obj = "unset"
    /\ sol = <<>>
    /\ e = NoExc
    /\ exc = NoExc
    /\ uploadCalls = 0

UNCH_ARGS == UNCHANGED <<job_id, bucket, platformBound>>

\* main line 134, log_startup lines 77-84.  The payload is evaluated before
\* log() is called; the lookup of `platform` raises NameError when the name
\* is unbound, outside main's try statement.
LogStartup ==
    /\ pc = "log_startup"
    /\ IF platformBound
       THEN /\ logRecs' = Log(logRecs, "[info] startup", <<job_id, use_s3>>)
            /\ appLogExists' = TRUE
            /\ pc' = "init_gurobi_logging"
            /\ exc' = exc
       ELSE /\ exc' = Exc("NameError", "name 'platform' is not defined")
            /\ pc' = "done"
            /\ UNCHANGED <<logRecs, appLogExists>>
    /\ UNCH_ARGS
    /\ UNCHANGED <<use_s3, console, s3ops, fsOps, grbLogExists, grbLogTargets,
                   products, caps, lp, status, obj, sol, e, uploadCalls>>

\* main line 135, init_gurobi_logging lines 86-95.  Every exception is caught.
InitGurobiLogging ==
    /\ pc = "init_gurobi_logging"
    /\ \E outcome \in {"ok", "env_raises", "start_raises"} :
         CASE outcome = "env_raises" ->
                /\ logRecs' = Log(logRecs, "[warn] gurobi log init failed", <<"Env">>)
                /\ UNCHANGED <<grbLogTargets, grbLogExists>>
           [] outcome = "start_raises" ->
                /\ grbLogTargets' = grbLogTargets \cup {"env"}
                /\ grbLogExists' \in {grbLogExists, TRUE}
                /\ logRecs' = Log(logRecs, "[warn] gurobi log init failed", <<"start">>)
           [] outcome = "ok" ->
                /\ grbLogTargets' = grbLogTargets \cup {"env"}
                /\ grbLogExists' = TRUE
                /\ logRecs' = Log(logRecs, "[info] gurobi log initialized", <<_GRB_LOG_PATH>>)
    /\ pc' = "job_start"
    /\ UNCH_ARGS
    /\ UNCHANGED <<use_s3, console, s3ops, fsOps, appLogExists, products, caps,
                   lp, status, obj, sol, e, exc, uploadCalls>>

\* main line 136
JobStart ==
    /\ pc = "job_start"
    /\ logRecs' = Log(logRecs, "[info] job start", <<job_id, use_s3>>)
    /\ pc' = "sleep"
    /\ UNCH_ARGS
    /\ UNCHANGED <<use_s3, console, s3ops, fsOps, appLogExists, grbLogExists,
                   grbLogTargets, products, caps, lp, status, obj, sol, e, exc,
                   uploadCalls>>

\* main lines 138-141: the try statement is entered
Sleep ==
    /\ pc = "sleep"
    /\ logRecs' = Log(logRecs, "[info] sleeping", <<600>>)
    /\ pc' = "load"
    /\ UNCH_ARGS
    /\ UNCHANGED <<use_s3, console, s3ops, fsOps, appLogExists, grbLogExists,
                   grbLogTargets, products, caps, lp, status, obj, sol, e, exc,
                   uploadCalls>>

\* load_s3_inputs, lines 23-32
LoadS3 ==
    \E outcome \in {"ok", "products_raises", "capacities_raises"} :
      LET prod_key == InputKey(job_id, "products.csv")
          cap_key == InputKey(job_id, "capacities.json")
      IN CASE outcome = "products_raises" ->
                /\ s3ops' = Append(s3ops, S3Op("get_object", prod_key, FALSE))
                /\ exc' = Exc("ClientError", "get_object")
                /\ pc' = "except"
                /\ UNCHANGED <<products, caps, logRecs>>
           [] outcome = "capacities_raises" ->
                /\ s3ops' = s3ops \o <<S3Op("get_object", prod_key, TRUE),
                                       S3Op("get_object", cap_key, FALSE)>>
                /\ exc' = Exc("ClientError", "get_object")
                /\ pc' = "except"
                /\ UNCHANGED <<products, caps, logRecs>>
           [] outcome = "ok" ->
                /\ s3ops' = s3ops \o <<S3Op("get_object", prod_key, TRUE),
                                       S3Op("get_object", cap_key, TRUE)>>
                /\ products' \in ProductTables
                /\ caps' \in CapacityMaps
                /\ logRecs' = Log(logRecs, "[info] loaded inputs from S3", <<prod_key, cap_key>>)
                /\ pc' = "solve"
                /\ exc' = exc

\* load_local_inputs, lines 14-21
LoadLocal ==
    \E outcome \in {"ok", "csv_missing", "json_missing"} :
      LET p_csv == "input/products.csv"
          p_json == "input/capacities.json"
      IN CASE outcome = "csv_missing" ->
                /\ fsOps' = Append(fsOps, <<"exists", p_csv>>)
                /\ exc' = Exc("FileNotFoundError",
                              "Place files under input/: products.csv, capacities.json")
                /\ pc' = "except"
                /\ UNCHANGED <<products, caps>>
           [] outcome = "json_missing" ->
                /\ fsOps' = fsOps \o <<<<"exists", p_csv>>, <<"exists", p_json>>>>
                /\ exc' = Exc("FileNotFoundError",
                              "Place files under input/: products.csv, capacities.json")
                /\ pc' = "except"
                /\ UNCHANGED <<products, caps>>
           [] outcome = "ok" ->
                /\ fsOps' = fsOps \o <<<<"exists", p_csv>>, <<"exists", p_json>>,
                                       <<"read", p_csv>>, <<"read", p_json>>>>
                /\ products' \in ProductTables
                /\ caps' \in CapacityMaps
                /\ pc' = "solve"
                /\ exc' = exc

\* main line 143
Load ==
    /\ pc = "load"
    /\ IF use_s3
       THEN LoadS3 /\ UNCHANGED fsOps
       ELSE LoadLocal /\ UNCHANGED <<s3ops, logRecs>>
    /\ UNCH_ARGS
    /\ UNCHANGED <<use_s3, console, appLogExists, grbLogExists, grbLogTargets,
                   lp, status, obj, sol, e, uploadCalls>>

\* solve lines 105-113: the model handed to the solver.  One variable per
\* item with lower bound 0; a <= constraint for resA and for resB when the
\* key is in caps.
BuildConstrs_AllKeys(rows, c) ==
    LET RECURSIVE Each(_)
        Each(K) == IF K = {} THEN <<>>
                   ELSE LET k == CHOOSE x \in K : TRUE
                        IN <<[res |-> k, sense |-> "<=", rhs |-> c[k]]>> \o Each(K \ {k})
    IN Each(DOMAIN c)
BuildConstrs(rows, c) ==
    (IF "resA" \in DOMAIN c
     THEN <<[res |-> "resA", sense |-> "<=", rhs |-> c["resA"]]>> ELSE <<>>)
    \o
    (IF "resB" \in DOMAIN c
     THEN <<[res |-> "resB", sense |-> "<=", rhs |-> c["resB"]]>> ELSE <<>>)

BuildModel(rows, c) ==
    LET items == [i \in DOMAIN rows |-> rows[i].product]
        x == {items[i] : i \in DOMAIN items}
    IN [vars |-> x, lb |-> [v \in x |-> 0], constrs |-> BuildConstrs(rows, c)]

\* solve line 119
SolveRaises_OnlyInfeasible(st) == st = 3
SolveRaises(st) == st # GRB_OPTIMAL

\* solve lines 122-125
Solution(rows) ==
    [i \in DOMAIN rows |->
        [product |-> rows[i].product, quantity |-> "X",
         profit_contrib |-> <<rows[i].profit, "X">>]]

\* main line 144, solve lines 98-126
Solve ==
    /\ pc = "solve"
    /\ \/ \* gp.Model raises (no licence, no environment)
          /\ exc' = Exc("GurobiError", "Model")
          /\ pc' = "except"
          /\ UNCHANGED <<lp, grbLogTargets, grbLogExists, logRecs, status, obj, sol>>
       \/ \E st \in StatusCodes :
          /\ grbLogTargets' = IF use_s3 THEN grbLogTargets \cup {"model"} ELSE grbLogTargets
          /\ grbLogExists' \in IF use_s3 THEN {grbLogExists, TRUE} ELSE {grbLogExists}
          /\ lp' = BuildModel(products, caps)
          /\ status' = st
          /\ logRecs' = Log(Log(logRecs, "[info] start optimize", <<Len(products)>>),
                            "[info] optimize finished",
                            <<st, IF st = GRB_OPTIMAL THEN "ObjVal" ELSE "None">>)
          /\ IF SolveRaises(st)
             THEN /\ exc' = [type |-> "RuntimeError", msg |-> "status=", status |-> st]
                  /\ pc' = "except"
                  /\ UNCHANGED <<obj, sol>>
             ELSE /\ obj' = "ObjVal"
                  /\ sol' = Solution(products)
                  /\ pc' = "report"
                  /\ exc' = exc
    /\ UNCH_ARGS
    /\ UNCHANGED <<use_s3, console, s3ops, fsOps, appLogExists, products, caps,
                   e, uploadCalls>>

\* main lines 146-151
Report ==
    /\ pc = "report"
    /\ logRecs' = Log(Log(logRecs, "[info] objective", <<obj>>),
                      "[info] solution_preview", <<Len(sol)>>)
    /\ console' = console \o <<"Objective", "solution">>
    /\ pc' = "write"
    /\ UNCH_ARGS
    /\ UNCHANGED <<use_s3, s3ops, fsOps, appLogExists, grbLogExists, grbLogTargets,
                   products, caps, lp, status, obj, sol, e, exc, uploadCalls>>

\* write_s3_output, lines 34-39
WriteS3Output ==
    \E ok \in BOOLEAN :
      /\ s3ops' = Append(s3ops, S3Op("put_object", OutputKey(job_id), ok))
      /\ IF ok
         THEN /\ logRecs' = Log(logRecs, "[info] wrote solution", <<OutputKey(job_id)>>)
              /\ pc' = "success"
              /\ exc' = exc
         ELSE /\ exc' = Exc("ClientError", "put_object")
              /\ pc' = "except"
              /\ UNCHANGED logRecs

\* main lines 153-154
Write_Always ==
    /\ pc = "write"
    /\ WriteS3Output
    /\ UNCH_ARGS
    /\ UNCHANGED <<use_s3, console, fsOps, appLogExists, grbLogExists, grbLogTargets,
                   products, caps, lp, status, obj, sol, e, uploadCalls>>
Write ==
    /\ pc = "write"
    /\ IF use_s3
       THEN WriteS3Output
       ELSE pc' = "success" /\ UNCHANGED <<s3ops, logRecs, exc>>
    /\ UNCH_ARGS
    /\ UNCHANGED <<use_s3, console, fsOps, appLogExists, grbLogExists, grbLogTargets,
                   products, caps, lp, status, obj, sol, e, uploadCalls>>

\* main line 156; the try block ends and the finally clause follows
Success ==
    /\ pc = "success"
    /\ logRecs' = Log(logRecs, "[info] job success", <<job_id>>)
    /\ pc' = "finally"
    /\ UNCH_ARGS
    /\ UNCHANGED <<use_s3, console, s3ops, fsOps, appLogExists, grbLogExists,
                   grbLogTargets, products, caps, lp, status, obj, sol, e, exc,
                   uploadCalls>>

\* main lines 157-162: two records, then a bare raise
Except_SkipFinally ==
    /\ pc = "except"
    /\ e' = exc
    /\ logRecs' = Log(Log(logRecs, "[error] job failed", <<exc.type, exc.status>>),
                      "[error] traceback", <<exc.type, exc.status>>)
    /\ pc' = "done"
    /\ UNCH_ARGS
    /\ UNCHANGED <<use_s3, console, s3ops, fsOps, appLogExists, grbLogExists,
                   grbLogTargets, products, caps, lp, status, obj, sol, exc,
                   uploadCalls>>
Except ==
    /\ pc = "except"
    /\ e' = exc
    /\ logRecs' = Log(Log(logRecs, "[error] job failed", <<exc.type, exc.status>>),
                      "[error] traceback", <<exc.type, exc.status>>)
    /\ pc' = "finally"
    /\ UNCH_ARGS
    /\ UNCHANGED <<use_s3, console, s3ops, fsOps, appLogExists, grbLogExists,
                   grbLogTargets, products, caps, lp, status, obj, sol, exc,
                   uploadCalls>>

\* upload_logs_if_needed, lines 58-73.  An upload_file that raises ends the
\* function at that line.
UploadLogsIfNeeded ==
    /\ uploadCalls' = uploadCalls + 1
    /\ IF ~use_s3
       THEN UNCHANGED <<s3ops, console, exc>>
       ELSE \E appOk, grbOk \in BOOLEAN :
              LET app_key == LogKey(job_id, "app")
                  grb_key == LogKey(job_id, "gurobi")
                  appTried == appLogExists
                  appRaised == appTried /\ ~appOk
                  grbTried == ~appRaised /\ grbLogExists
                  grbRaised == grbTried /\ ~grbOk
              IN /\ appTried \/ appOk       \* no outcome to choose for a call not made
                 /\ grbTried \/ grbOk
                 /\ s3ops' = s3ops
                       \o (IF appTried THEN <<S3Op("upload_file", app_key, appOk)>> ELSE <<>>)
                       \o (IF grbTried THEN <<S3Op("upload_file", grb_key, grbOk)>> ELSE <<>>)
                 /\ console' = console
                       \o (IF appTried /\ appOk THEN <<"uploaded app log">> ELSE <<>>)
                       \o (IF grbTried /\ grbOk THEN <<"uploaded gurobi log">> ELSE <<>>)
                 /\ exc' = IF appRaised \/ grbRaised
                           THEN Exc("S3UploadFailedError", "upload_file")
                           ELSE exc

\* main lines 163-165: the finally clause; afterwards main returns, or the
\* pending exception (the one raised in the finally clause, if any) leaves main
Finally ==
    /\ pc = "finally"
    /\ UploadLogsIfNeeded
    /\ pc' = "done"
    /\ UNCH_ARGS
    /\ UNCHANGED <<use_s3, logRecs, fsOps, appLogExists, grbLogExists, grbLogTargets,
                   products, caps, lp, status, obj, sol, e>>

Next ==
    \/ LogStartup
    \/ InitGurobiLogging
    \/ JobStart
    \/ Sleep
    \/ Load
    \/ Solve
    \/ Report
    \/ Write
    \/ Success
    \/ Except
    \/ Finally

Spec == Init /\ [][Next]_vars

----------------------------------------------------------------------------
(* Vocabulary of the properties *)

HasLog(m) == \E i \in DOMAIN logRecs : logRecs[i].msg = m
CountLog(m) == Cardinality({i \in DOMAIN logRecs : logRecs[i].msg = m})
OpsAt(op, key) == {i \in DOMAIN s3ops : s3ops[i].op = op /\ s3ops[i].key = key}
OpsOf(op) == {i \in DOMAIN s3ops : s3ops[i].op = op}
Succeeded == HasLog("[info] job success")
StageFailed == e # NoExc
Recognized == {"resA", "resB"}

----------------------------------------------------------------------------
\* C1: in remote mode, every run that ends with the 'job success' record or
\* with an exception raised by a stage has called upload_logs_if_needed
\* exactly once, after that outcome and before main is left.
C1_LogShippingOnEveryExit ==
    /\ uploadCalls <= 1
    /\ (use_s3 /\ pc = "done" /\ (Succeeded \/ StageFailed)) => uploadCalls = 1
    /\ uploadCalls = 1 => (pc = "done" /\ (Succeeded \/ StageFailed))
    /\ pc = "finally" => (uploadCalls = 0 /\ (Succeeded \/ StageFailed))

C1_Witness == use_s3 /\ pc = "done" /\ StageFailed /\ ~Succeeded /\ uploadCalls = 1

\* C2: every run emits the startup record and then enters the guarded block
\* (the sleep record is its first statement); no run ends in the startup steps.
C2_StartupAlwaysReachesLoading ==
    pc = "done" => (HasLog("[info] startup") /\ HasLog("[info] sleeping"))

\* C3: in remote mode, when a stage raised E, the exception that leaves main
\* is E even if an upload in upload_logs_if_needed fails.
C3_ShippingNeverMasksFailure ==
    (use_s3 /\ pc = "done" /\ StageFailed) => exc = e

\* C4: every exception raised in the guarded block yields exactly the two
\* records '[error] job failed' and '[error] traceback', in that order and
\* before log shipping starts, no '[info] job success' record, and the same
\* exception leaves main.
C4_TwoRecordsThenReraise ==
    (StageFailed /\ pc \in {"finally", "done"}) =>
        /\ CountLog("[error] job failed") = 1
        /\ CountLog("[error] traceback") = 1
        /\ Len(logRecs) >= 2
        /\ logRecs[Len(logRecs) - 1].msg = "[error] job failed"
        /\ logRecs[Len(logRecs)].msg = "[error] traceback"
        /\ ~Succeeded
        /\ pc = "finally" => (uploadCalls = 0 /\ OpsOf("upload_file") = {})
        /\ pc = "done" => exc = e

\* C5: use_s3 holds iff a bucket was supplied that has a non-whitespace
\* character; it never changes; a local-mode run makes no object-storage
\* call and a remote-mode run never touches the local input files.
C5_ModeSelection ==
    /\ use_s3 = (bucket.given
                 /\ \E i \in DOMAIN bucket.value : bucket.value[i] \notin Whitespace)
    /\ ~use_s3 => s3ops = <<>>
    /\ use_s3 => fsOps = <<>>

C5_Witness ==
    /\ bucket.given /\ bucket.value # <<>> /\ ~use_s3
    /\ pc = "done" /\ fsOps # <<>> /\ uploadCalls = 1

\* C6: a solver status other than optimal makes solve raise an error that
\* carries the status and return no solution; the run ends failed, with no
\* objective or solution record, nothing printed and no output object.
C6_NonOptimalFails ==
    (status # 0 /\ status # GRB_OPTIMAL) =>
        /\ sol = <<>> /\ obj = "unset"
        /\ pc \in {"except", "finally", "done"}
        /\ pc = "except" => (exc.type = "RuntimeError" /\ exc.status = status)
        /\ pc # "except" => (e.type = "RuntimeError" /\ e.status = status)
        /\ pc = "done" => exc # NoExc
        /\ ~Succeeded
        /\ ~HasLog("[info] objective") /\ ~HasLog("[info] solution_preview")
        /\ console = <<>> \/ (\A i \in DOMAIN console :
                                 console[i] \notin {"Objective", "solution"})
        /\ OpsOf("put_object") = {}

C6_Witness == use_s3 /\ status = 5 /\ pc = "done" /\ exc # NoExc /\ "resA" \notin DOMAIN caps

\* C7: the output object is written at most once, only in remote mode after
\* an optimal solve, at the key of the job; a local run whose solve is
\* optimal goes from the report straight to the 'job success' record.
C7_OutputWrittenOnce ==
    /\ Cardinality(OpsOf("put_object")) <= 1
    /\ OpsOf("put_object") = OpsAt("put_object", OutputKey(job_id))
    /\ OpsOf("put_object") # {} => (use_s3 /\ status = GRB_OPTIMAL)
    /\ (~use_s3 /\ status = GRB_OPTIMAL /\ pc \in {"finally", "done"}) =>
          /\ e = NoExc /\ exc = NoExc
          /\ logRecs[Len(logRecs)].msg = "[info] job success"
          /\ logRecs[Len(logRecs) - 1].msg = "[info] solution_preview"

C7_Witness == ~use_s3 /\ status = GRB_OPTIMAL /\ pc = "done" /\ Succeeded

\* C8: the model built by solve has one variable per product, each with
\* lower bound 0, and one <= constraint per key of {resA, resB} present in
\* the capacity map; other keys add nothing.
C8_ModelShape ==
    status # 0 =>
        /\ lp.vars = {products[i].product : i \in DOMAIN products}
        /\ Cardinality(lp.vars) = Len(products)
        /\ \A v \in lp.vars : lp.lb[v] = 0
        /\ Len(lp.constrs) = Cardinality(Recognized \cap DOMAIN caps)
        /\ \A i \in DOMAIN lp.constrs :
              /\ lp.constrs[i].sense = "<="
              /\ lp.constrs[i].res \in Recognized \cap DOMAIN caps
              /\ lp.constrs[i].rhs = caps[lp.constrs[i].res]
        /\ \A i, j \in DOMAIN lp.constrs :
              lp.constrs[i].res = lp.constrs[j].res => i = j

C8_Witness ==
    /\ status # 0 /\ Len(products) = 2
    /\ DOMAIN caps = {"resA", "resC"}
    /\ Len(lp.constrs) = 1

\* C9: at teardown in remote mode each log file that exists has exactly one
\* upload attempt, whatever the outcome of the other upload; a file that
\* does not exist has none; at most two log objects are stored.
C9_EachLogUploadedOnce ==
    (use_s3 /\ pc = "done" /\ uploadCalls = 1) =>
        /\ Cardinality(OpsAt("upload_file", LogKey(job_id, "app")))
              = IF appLogExists THEN 1 ELSE 0
        /\ Cardinality(OpsAt("upload_file", LogKey(job_id, "gurobi")))
              = IF grbLogExists THEN 1 ELSE 0
        /\ Cardinality({i \in OpsOf("upload_file") : s3ops[i].ok}) <= 2

\* C10: in local mode no solver object is ever directed to write to the
\* solver log file.
C10_LocalSolverSilent ==
    ~use_s3 => grbLogTargets = {}

----------------------------------------------------------------------------
(* Supporting facts: what remains true of the statements that fail above *)

\* C2 holds of every run in which the name `platform` resolves.
StartupReachesLoadingIfBound == platformBound => C2_StartupAlwaysReachesLoading

\* C4 without the identity of the exception that leaves main in a run whose
\* upload raised.
ErrorRecordsBeforeShipping ==
    (StageFailed /\ pc \in {"finally", "done"}) =>
        /\ CountLog("[error] job failed") = 1
        /\ CountLog("[error] traceback") = 1
        /\ logRecs[Len(logRecs) - 1].msg = "[error] job failed"
        /\ logRecs[Len(logRecs)].msg = "[error] traceback"
        /\ ~Succeeded
        /\ pc = "finally" => (uploadCalls = 0 /\ OpsOf("upload_file") = {})
        /\ (pc = "done" /\ \A i \in OpsOf("upload_file") : s3ops[i].ok) => exc = e

\* C9 holds of every run whose application-log upload does not raise.
UploadedOnceIfAppUploadOk ==
    (\A i \in OpsAt("upload_file", LogKey(job_id, "app")) : s3ops[i].ok)
        => C9_EachLogUploadedOnce

\* solve alone never directs the solver to the log file in local mode.
LocalSolveSetsNoLogFile == ~use_s3 => "model" \notin grbLogTargets
====
